---------------------------- MODULE Spec2Model ----------------------------
(***************************************************************************)
(* Aurora OS MCP demo server (KotDath/aurora-mcp).                         *)
(*                                                                         *)
(* The model follows the three source files:                               *)
(*   src/src/aurora_server.rs  the AuroraServer handler and its five tools *)
(*   src/src/main.rs           argument parsing, the stdio and HTTP        *)
(*                             transports, the /health route, shutdown     *)
(*   src/src/sse_server.rs     create_sse_server, the SSE transport and    *)
(*                             its /health route                           *)
(*                                                                         *)
(* main.rs declares only `mod aurora_server` and its TransportMode has the *)
(* variants Stdio and Http, so create_sse_server is not reachable from     *)
(* main.  It is modelled as a second entry point (entry =                  *)
(* "create_sse_server"): a caller that already holds an AuroraServer and a *)
(* parsed SocketAddr.                                                      *)
(*                                                                         *)
(* Library behaviour the source relies on (rmcp, axum, clap, serde) is     *)
(* modelled at the call that uses it; each definition says which.          *)
(***************************************************************************)
EXTENDS Integers, Sequences, FiniteSets, TLC

(***************************************************************************)
(* Bounds of the model.                                                    *)
(***************************************************************************)
MaxNames == 2          \* longest `names` list of a batch_greeting request
MaxSessions == 2       \* HTTP / SSE sessions that may be open at once
MaxClock == 2          \* wall-clock instants 0..MaxClock

Names == {"Ann", "Bob"}              \* the names requests draw from
Prefixes == {"Hello", "Hi"}          \* the prefixes requests draw from
SessionIds == 1..MaxSessions

VARIABLES
    entry,              \* the function the run starts in: "main" or "create_sse_server"
    args,               \* Args after the command line: [transport, addr_ok]
    pc,                 \* where main / create_sse_server stands
    server,             \* the AuroraServer instance (NoServer before AuroraServer::new)
    adapter,            \* the transport adapter that was started, "none" before
    sessions,           \* open sessions: id -> [server, stream]
    signalled,          \* Ctrl+C was received by the installed handler
    now,                \* the wall clock, chrono::Utc::now()
    inflight,           \* the request being answered and its response, NoRequest if none
    fault,              \* the error that ended start-up or serving, "none" if none
    shutdown_complete,  \* "shutdown complete" was logged and Ok(()) returned
    exit_code           \* the process exit code, Running while it runs

vars == <<entry, args, pc, server, adapter, sessions, signalled, now,
          inflight, fault, shutdown_complete, exit_code>>

(***************************************************************************)
(* Option<T>: None is the empty sequence, Some(v) the one-element one.     *)
(***************************************************************************)
None == <<>>
Some(v) == <<v>>

\* Option::unwrap_or / unwrap_or_else
unwrap_or(o, default) == IF o = None THEN default ELSE o[1]

\* Result<CallToolResult, McpError>: CallToolResult::success / ::error
\* wrapped in Ok, and a propagated McpError.
Ok(call_tool_result) == [ok |-> TRUE, value |-> call_tool_result]
Err(mcp_error) == [ok |-> FALSE, error |-> mcp_error]
CallToolResult_success(text) == [is_error |-> FALSE, content |-> <<text>>]
CallToolResult_error(text) == [is_error |-> TRUE, content |-> <<text>>]

(***************************************************************************)
(* JSON text, as serde_json's to_string writes it: no white space, object  *)
(* keys in sorted order (serde_json::Map is a BTreeMap by default),        *)
(* strings in double quotes.  The strings of this model hold no character  *)
(* that JSON escapes.                                                      *)
(***************************************************************************)
JsonString(s) == "\"" \o s \o "\""
JsonBool(b) == IF b THEN "true" ELSE "false"
JsonNumber(n) == ToString(n)

RECURSIVE JsonItems(_)
JsonItems(strs) ==
    IF strs = <<>> THEN ""
    ELSE IF Len(strs) = 1 THEN JsonString(strs[1])
    ELSE JsonString(strs[1]) \o "," \o JsonItems(Tail(strs))

JsonStringArray(strs) == "[" \o JsonItems(strs) \o "]"

\* chrono::Utc::now().to_rfc3339() of the instant t
to_rfc3339(t) == "1970-01-01T00:00:0" \o ToString(t) \o "+00:00"

\* [String]::join(sep)
RECURSIVE join(_, _)
join(strs, sep) ==
    IF strs = <<>> THEN ""
    ELSE IF Len(strs) = 1 THEN strs[1]
    ELSE strs[1] \o sep \o join(Tail(strs), sep)

(***************************************************************************)
(* aurora_server.rs: the tool router and the tools.                        *)
(***************************************************************************)
\* The #[tool] methods of the #[tool_router] impl block, in source order.
ToolFns == <<"hello_world", "get_usa_president", "get_server_info",
             "health_check", "batch_greeting">>

\* ToolRouter::add_route: the router is keyed by tool name, a route added
\* under a name already present replaces it.
add_route(router, name) ==
    IF \E i \in 1..Len(router) : router[i] = name THEN router
    ELSE Append(router, name)

\* Self::tool_router(), generated by #[tool_router]: one route per #[tool] fn.
RECURSIVE tool_router_from(_, _)
tool_router_from(router, fns) ==
    IF fns = <<>> THEN router
    ELSE tool_router_from(add_route(router, Head(fns)), Tail(fns))

AuroraServer_tool_router == tool_router_from(<<>>, ToolFns)

\* AuroraServer::new
AuroraServer_new == [tool_router |-> AuroraServer_tool_router]

\* #[derive(Clone)] on AuroraServer
CloneDroppingRoute(self) ==
    [tool_router |-> SubSeq(self.tool_router, 1, Len(self.tool_router) - 1)]

Clone(self) == [tool_router |-> self.tool_router]

\* The fixed texts of hello_world and get_usa_president (the source's
\* strings carry an emoji and Cyrillic text; they are written in ASCII here).
HelloGreeting == "Hello, World! from Aurora OS MCP Server"
PresidentText == "V 2025 godu prezidentom SShA yavlyaetsya Donald Tramp ili Agent Krasnov"

\* hello_world(&self)
hello_world_stamped(self) ==
    Ok(CallToolResult_success(HelloGreeting \o " " \o to_rfc3339(now)))

hello_world(self) == Ok(CallToolResult_success(HelloGreeting))

\* get_usa_president(&self)
get_usa_president(self) == Ok(CallToolResult_success(PresidentText))

\* The "tools", "transports" and "capabilities" arrays of get_server_info.
\* Each entry of "tools" is "<name>() - <description>".
ServerInfoToolNames ==
    <<"hello_world", "get_usa_president", "get_server_info", "health_check",
      "batch_greeting">>
ServerInfoToolDescriptions ==
    << "Returns a greeting message from Aurora OS",
       "Return current usa president",
       "Returns detailed server information",
       "Returns server health status",
       "Generate personalized greetings for multiple names" >>
ServerInfoTools ==
    [i \in 1..Len(ServerInfoToolNames) |->
        ServerInfoToolNames[i] \o "() - " \o ServerInfoToolDescriptions[i]]
ServerInfoTransports == <<"stdio", "http", "sse">>
ServerInfoCapabilities ==
    <<"tools", "stdio transport", "http transport", "sse transport">>

\* get_server_info(&self): info.to_string()
get_server_info(self) ==
    Ok(CallToolResult_success(
        "{" \o JsonString("capabilities") \o ":" \o JsonStringArray(ServerInfoCapabilities)
        \o "," \o JsonString("description") \o ":"
               \o JsonString("A demonstration MCP server for Aurora OS integration")
        \o "," \o JsonString("platform") \o ":" \o JsonString("Aurora OS")
        \o "," \o JsonString("protocol_version") \o ":" \o JsonString("2024-11-05")
        \o "," \o JsonString("server") \o ":" \o JsonString("Aurora OS MCP Demo Server")
        \o "," \o JsonString("tools") \o ":" \o JsonStringArray(ServerInfoTools)
        \o "," \o JsonString("transports") \o ":" \o JsonStringArray(ServerInfoTransports)
        \o "," \o JsonString("version") \o ":" \o JsonString("0.1.0")
        \o "}"))

\* The literal "tools_available" of health_check.
ToolsAvailable == 4

\* health_check(&self): health.to_string(); utc_now is chrono::Utc::now()
health_check(self, utc_now) ==
    Ok(CallToolResult_success(
        "{" \o JsonString("server") \o ":" \o JsonString("Aurora OS MCP Demo Server")
        \o "," \o JsonString("status") \o ":" \o JsonString("healthy")
        \o "," \o JsonString("timestamp") \o ":" \o JsonString(to_rfc3339(utc_now))
        \o "," \o JsonString("tools_available") \o ":" \o JsonNumber(ToolsAvailable)
        \o "," \o JsonString("transport_mode") \o ":"
               \o JsonString("multi-mode (stdio/http/sse)")
        \o "," \o JsonString("uptime_seconds") \o ":" \o JsonNumber(0)
        \o "," \o JsonString("version") \o ":" \o JsonString("0.1.0")
        \o "}"))

(***************************************************************************)
(* batch_greeting.  The arguments of a call are a JSON object: a function  *)
(* from the keys that are present to their values.  serde builds the       *)
(* BatchGreetingRequest from it; an absent Option field becomes None.      *)
(***************************************************************************)
EmptyObject == [k \in {} |-> 0]

Deserialize(arguments) ==
    [names           |-> arguments.names,
     prefix          |-> IF "prefix" \in DOMAIN arguments
                         THEN Some(arguments.prefix) ELSE None,
     include_numbers |-> IF "include_numbers" \in DOMAIN arguments
                         THEN Some(arguments.include_numbers) ELSE None,
     as_json         |-> IF "as_json" \in DOMAIN arguments
                         THEN Some(arguments.as_json) ELSE None]

\* `let prefix = prefix.unwrap_or_else(|| "Hello".to_string())` and the two
\* unwrap_or(false) that follow it.
DefaultPrefixHi == "Hi"
DefaultPrefix == "Hello"
DefaultIncludeNumbers == FALSE
DefaultAsJson == FALSE

\* The body of `for (i, name) in names.iter().enumerate()`; i is 0-based.
GreetingFromZero(i, name, prefix, include_numbers) ==
    (IF include_numbers THEN ToString(i) \o ". " \o prefix ELSE prefix)
        \o ", " \o name \o "!"

Greeting(i, name, prefix, include_numbers) ==
    (IF include_numbers THEN ToString(i + 1) \o ". " \o prefix ELSE prefix)
        \o ", " \o name \o "!"

\* The loop: greetings is the Vec built so far, i the next index.
RECURSIVE GreetingsLoop(_, _, _, _, _)
GreetingsLoop(names, i, prefix, include_numbers, greetings) ==
    IF i >= Len(names) THEN greetings
    ELSE GreetingsLoop(names, i + 1, prefix, include_numbers,
                       Append(greetings, Greeting(i, names[i + 1], prefix, include_numbers)))

\* json!({"greetings", "count", "prefix", "include_numbers"}).to_string()
BatchJson(greetings, prefix, include_numbers) ==
    "{" \o JsonString("count") \o ":" \o JsonNumber(Len(greetings))
    \o "," \o JsonString("greetings") \o ":" \o JsonStringArray(greetings)
    \o "," \o JsonString("include_numbers") \o ":" \o JsonBool(include_numbers)
    \o "," \o JsonString("prefix") \o ":" \o JsonString(prefix)
    \o "}"

EmptyNamesError == "Error: At least one name must be provided"

\* batch_greeting(&self, Parameters(BatchGreetingRequest {..}))
batch_greeting_propagating(self, request) ==
    IF request.names = <<>>
    THEN Err(EmptyNamesError)
    ELSE LET prefix == unwrap_or(request.prefix, DefaultPrefix)
             include_numbers == unwrap_or(request.include_numbers, DefaultIncludeNumbers)
             as_json == unwrap_or(request.as_json, DefaultAsJson)
             greetings == GreetingsLoop(request.names, 0, prefix, include_numbers, <<>>)
         IN  Ok(CallToolResult_success(
                 IF as_json THEN BatchJson(greetings, prefix, include_numbers)
                 ELSE join(greetings, "\n")))

batch_greeting(self, request) ==
    IF request.names = <<>>
    THEN Ok(CallToolResult_error(EmptyNamesError))
    ELSE LET prefix == unwrap_or(request.prefix, DefaultPrefix)
             include_numbers == unwrap_or(request.include_numbers, DefaultIncludeNumbers)
             as_json == unwrap_or(request.as_json, DefaultAsJson)
             greetings == GreetingsLoop(request.names, 0, prefix, include_numbers, <<>>)
         IN  Ok(CallToolResult_success(
                 IF as_json THEN BatchJson(greetings, prefix, include_numbers)
                 ELSE join(greetings, "\n")))

\* #[tool_handler] call_tool: the route for `name`, applied to the arguments.
CallTool(self, name, arguments, utc_now) ==
    CASE name = "hello_world"       -> hello_world(self)
      [] name = "get_usa_president" -> get_usa_president(self)
      [] name = "get_server_info"   -> get_server_info(self)
      [] name = "health_check"      -> health_check(self, utc_now)
      [] name = "batch_greeting"    -> batch_greeting(self, Deserialize(arguments))

(***************************************************************************)
(* impl ServerHandler for AuroraServer: get_info and initialize.  Both     *)
(* carry the same instructions text; its "Available Tools" lines are       *)
(* "<bullet> <name>: <description>".                                       *)
(***************************************************************************)
InstructionsToolNames ==
    <<"hello_world", "get_server_info", "health_check", "batch_greeting">>
InstructionsToolDescriptions ==
    << "Returns a greeting message from Aurora OS",
       "Returns detailed server information",
       "Returns server health status",
       "Generate personalized greetings for multiple names" >>
InstructionsTransports ==
    << "stdio: Standard MCP communication mode",
       "http: REST API mode with JSON-RPC endpoint",
       "sse: Real-time Server-Sent Events mode" >>

\* The lines of a bulleted list, each ended by a newline.
RECURSIVE Bullets(_)
Bullets(lines) ==
    IF lines = <<>> THEN ""
    ELSE "* " \o Head(lines) \o "\n" \o Bullets(Tail(lines))

Instructions ==
    "Aurora OS MCP Demo Server\n\n"
    \o "This is a demonstration MCP (Model Context Protocol) server designed "
    \o "specifically for Aurora OS integration.\n\n"
    \o "Available Tools:\n"
    \o Bullets([i \in 1..Len(InstructionsToolNames) |->
                  InstructionsToolNames[i] \o ": " \o InstructionsToolDescriptions[i]])
    \o "\nAvailable Transports:\n"
    \o Bullets(InstructionsTransports)
    \o "\nThis server showcases basic MCP tool implementation using the Rust SDK "
    \o "and demonstrates how Aurora OS can integrate with AI assistants through "
    \o "the Model Context Protocol."

\* get_info(&self) -> ServerInfo
get_info(self) ==
    [protocol_version |-> "2024-11-05",
     capabilities |-> {"tools"},
     instructions |-> Some(Instructions)]

\* initialize(&self, _request, _context) -> Result<InitializeResult, McpError>
initialize(self) ==
    [ok |-> TRUE,
     value |-> [protocol_version |-> "2024-11-05",
                capabilities |-> {"tools"},
                instructions |-> Some(Instructions)]]

(***************************************************************************)
(* The requests the model sends.                                           *)
(***************************************************************************)
RECURSIVE SeqsUpTo(_, _)
SeqsUpTo(S, n) ==
    IF n = 0 THEN {<<>>}
    ELSE LET shorter == SeqsUpTo(S, n - 1)
         IN  shorter \cup {Append(q, x) : q \in {r \in shorter : Len(r) = n - 1}, x \in S}

NameLists == SeqsUpTo(Names, MaxNames)

BatchArguments ==
    { [names |-> n] @@ p @@ i @@ j :
        n \in NameLists,
        p \in {EmptyObject} \cup {[prefix |-> x] : x \in Prefixes},
        i \in {EmptyObject} \cup {[include_numbers |-> b] : b \in BOOLEAN},
        j \in {EmptyObject} \cup {[as_json |-> b] : b \in BOOLEAN} }

ArgumentsOf(name) ==
    IF name = "batch_greeting" THEN BatchArguments ELSE {EmptyObject}

(***************************************************************************)
(* main.rs and sse_server.rs: the /health handlers.  axum's Json responder *)
(* answers with status 200; the body is the JSON value.                    *)
(***************************************************************************)
PkgVersion == "CARGO_PKG_VERSION"

\* health_check_handler() of main.rs; utc_now is chrono::Utc::now()
health_check_handler_readiness(utc_now) ==
    IF Cardinality(DOMAIN sessions) >= MaxSessions
    THEN [status_code |-> 503,
          body |-> [status |-> "unavailable", timestamp |-> to_rfc3339(utc_now),
                    server |-> "Aurora OS MCP Demo Server", version |-> PkgVersion,
                    transport_mode |-> "http",
                    endpoints |-> [mcp |-> "/mcp", health |-> "/health"]]]
    ELSE [status_code |-> 200,
          body |-> [status |-> "healthy", timestamp |-> to_rfc3339(utc_now),
                    server |-> "Aurora OS MCP Demo Server", version |-> PkgVersion,
                    transport_mode |-> "http",
                    endpoints |-> [mcp |-> "/mcp", health |-> "/health"]]]

health_check_handler(utc_now) ==
    [status_code |-> 200,
     body |-> [status |-> "healthy", timestamp |-> to_rfc3339(utc_now),
               server |-> "Aurora OS MCP Demo Server", version |-> PkgVersion,
               transport_mode |-> "http",
               endpoints |-> [mcp |-> "/mcp", health |-> "/health"]]]

\* sse_health_check() of sse_server.rs
sse_health_check(utc_now) ==
    [status_code |-> 200,
     body |-> [status |-> "healthy", timestamp |-> to_rfc3339(utc_now),
               server |-> "Aurora OS MCP Demo Server", version |-> PkgVersion,
               transport_mode |-> "sse",
               endpoints |-> [sse |-> "/sse", message |-> "/message",
                              health |-> "/health"]]]

(***************************************************************************)
(* The process.                                                            *)
(***************************************************************************)
\* The values --transport may be given on the command line, and the ones
\* the clap::ValueEnum TransportMode accepts.
TransportValues == {"stdio", "http", "sse", "websocket"}
TransportMode == {"stdio", "http"}

NoServer == [tool_router |-> <<>>]
NoSessions == [id \in {} |-> 0]
NoRequest == [kind |-> "none"]
Running == -1

\* Exit codes: main returned Ok(()), main returned Err, clap rejected the
\* command line.
ExitOk == 0
ExitErr == 1
ExitUsage == 2

Serving == pc \in {"stdio_waiting", "http_serving", "sse_serving"}
OpenStreams == {id \in DOMAIN sessions : sessions[id].stream}

Init ==
    /\ entry \in {"main", "create_sse_server"}
    /\ IF entry = "main"
       THEN /\ args \in [transport : TransportValues, addr_ok : BOOLEAN]
            /\ pc = "parse"
            /\ server = NoServer
       ELSE /\ args = [transport |-> "sse", addr_ok |-> TRUE]
            /\ pc = "sse_bind"
            /\ server = AuroraServer_new
    /\ adapter = "none"
    /\ sessions = NoSessions
    /\ signalled = FALSE
    /\ now = 0
    /\ inflight = NoRequest
    /\ fault = "none"
    /\ shutdown_complete = FALSE
    /\ exit_code = Running

\* The process ends: open sessions and an unsent response go with it.
Exit(code, complete, error) ==
    /\ pc' = "exited"
    /\ exit_code' = code
    /\ shutdown_complete' = complete
    /\ fault' = error
    /\ sessions' = NoSessions
    /\ inflight' = NoRequest

\* Args::parse(): clap ends the process with a usage error on a value that
\* is no TransportMode.
ParseArgs ==
    /\ pc = "parse"
    /\ IF args.transport \in TransportMode
       THEN /\ pc' = "new"
            /\ UNCHANGED <<exit_code, shutdown_complete, fault, sessions, inflight>>
       ELSE Exit(ExitUsage, FALSE, "usage")
    /\ UNCHANGED <<entry, args, server, adapter, signalled, now>>

\* let server = aurora_server::AuroraServer::new();
NewServer ==
    /\ pc = "new"
    /\ server' = AuroraServer_new
    /\ pc' = "match"
    /\ UNCHANGED <<entry, args, adapter, sessions, signalled, now, inflight,
                   fault, shutdown_complete, exit_code>>

StdioSessionId == 1

\* TransportMode::Stdio: server.serve(stdio()).await ... ?
StdioServe ==
    /\ pc = "match"
    /\ args.transport = "stdio"
    /\ \E started \in BOOLEAN :
         IF started
         THEN /\ pc' = "stdio_waiting"
              /\ adapter' = "stdio"
              /\ sessions' = (StdioSessionId :> [server |-> server, stream |-> TRUE])
              /\ UNCHANGED <<exit_code, shutdown_complete, fault, inflight>>
         ELSE /\ Exit(ExitErr, FALSE, "stdio_start")
              /\ UNCHANGED adapter
    /\ UNCHANGED <<entry, args, server, signalled, now>>

\* The peer closes the stdio transport: the one session ends, a response
\* not yet written is dropped.
StdioClosed ==
    /\ pc = "stdio_waiting"
    /\ sessions # NoSessions
    /\ sessions' = NoSessions
    /\ inflight' = NoRequest
    /\ UNCHANGED <<entry, args, pc, server, adapter, signalled, now,
                   fault, shutdown_complete, exit_code>>

\* service.waiting().await? yields Ok(quit reason): "shutdown complete", Ok(())
StdioWaitingOk ==
    /\ pc = "stdio_waiting"
    /\ sessions = NoSessions
    /\ Exit(ExitOk, TRUE, "none")
    /\ UNCHANGED <<entry, args, server, adapter, signalled, now>>

\* service.waiting().await? yields Err (the serving task failed): main
\* returns the error.
StdioWaitingErr ==
    /\ pc = "stdio_waiting"
    /\ sessions # NoSessions
    /\ Exit(ExitErr, FALSE, "serve")
    /\ UNCHANGED <<entry, args, server, adapter, signalled, now>>

\* TransportMode::Http: format!("{}:{}", host, port).parse() ... ?
HttpParseAddr ==
    /\ pc = "match"
    /\ args.transport = "http"
    /\ IF args.addr_ok
       THEN /\ pc' = "http_bind"
            /\ UNCHANGED <<exit_code, shutdown_complete, fault, sessions, inflight>>
       ELSE Exit(ExitErr, FALSE, "addr")
    /\ UNCHANGED <<entry, args, server, adapter, signalled, now>>

\* TcpListener::bind(addr).await ... ?  then axum::serve starts
HttpBind ==
    /\ pc = "http_bind"
    /\ \E bound \in BOOLEAN :
         IF bound
         THEN /\ pc' = "http_serving"
              /\ adapter' = "http"
              /\ UNCHANGED <<exit_code, shutdown_complete, fault, sessions, inflight>>
         ELSE /\ Exit(ExitErr, FALSE, "bind")
              /\ UNCHANGED adapter
    /\ UNCHANGED <<entry, args, server, signalled, now>>

\* create_sse_server: TcpListener::bind(addr).await ... ?  then the Ctrl+C
\* task is spawned, the service registered and axum::serve starts
SseBind ==
    /\ pc = "sse_bind"
    /\ \E bound \in BOOLEAN :
         IF bound
         THEN /\ pc' = "sse_serving"
              /\ adapter' = "sse"
              /\ UNCHANGED <<exit_code, shutdown_complete, fault, sessions, inflight>>
         ELSE /\ Exit(ExitErr, FALSE, "bind")
              /\ UNCHANGED adapter
    /\ UNCHANGED <<entry, args, server, signalled, now>>

(***************************************************************************)
(* Serving.  Requests are served only while the listener accepts: once the *)
(* shutdown signal was received axum accepts no connection and hyper ends  *)
(* keep-alive, so no further request arrives.  The handlers share no       *)
(* state and each runs to its end without waiting, so the model answers    *)
(* one request at a time: inflight holds it until the response is written. *)
(***************************************************************************)
Accepting ==
    \/ pc = "stdio_waiting" /\ sessions # NoSessions
    \/ pc \in {"http_serving", "sse_serving"} /\ ~signalled

\* A new session: the service factory hands it a clone of the server
\* (`move || Ok(server.clone())`, `move || server.clone()`).  An HTTP session
\* starts without an event stream, an SSE session is its event stream.
OpenSessionAnyTransport(id) ==
    /\ Serving
    /\ id \notin DOMAIN sessions
    /\ sessions' = sessions @@ (id :> [server |-> Clone(server), stream |-> pc # "http_serving"])
    /\ UNCHANGED <<entry, args, pc, server, adapter, signalled, now, inflight,
                   fault, shutdown_complete, exit_code>>

OpenSession(id) ==
    /\ pc \in {"http_serving", "sse_serving"}
    /\ ~signalled
    /\ id \notin DOMAIN sessions
    /\ sessions' = sessions @@ (id :> [server |-> Clone(server), stream |-> pc = "sse_serving"])
    /\ UNCHANGED <<entry, args, pc, server, adapter, signalled, now, inflight,
                   fault, shutdown_complete, exit_code>>

\* HTTP: the client opens the session's event stream (GET /mcp).
OpenStream(id) ==
    /\ pc = "http_serving"
    /\ ~signalled
    /\ id \in DOMAIN sessions
    /\ ~sessions[id].stream
    /\ sessions' = [sessions EXCEPT ![id].stream = TRUE]
    /\ UNCHANGED <<entry, args, pc, server, adapter, signalled, now, inflight,
                   fault, shutdown_complete, exit_code>>

\* HTTP: the client drops the event stream; the session stays.
CloseStream(id) ==
    /\ pc = "http_serving"
    /\ id \in OpenStreams
    /\ sessions' = [sessions EXCEPT ![id].stream = FALSE]
    /\ UNCHANGED <<entry, args, pc, server, adapter, signalled, now, inflight,
                   fault, shutdown_complete, exit_code>>

\* The client ends the session: DELETE /mcp (a request, so only while the
\* listener accepts) or, in SSE, dropping the event stream.
CloseSession(id) ==
    /\ \/ pc = "http_serving" /\ ~signalled
       \/ pc = "sse_serving"
    /\ id \in DOMAIN sessions
    /\ sessions' = [i \in DOMAIN sessions \ {id} |-> sessions[i]]
    /\ UNCHANGED <<entry, args, pc, server, adapter, signalled, now, inflight,
                   fault, shutdown_complete, exit_code>>

\* tools/list on a session: the names in the router of the session's server.
ToolsListed(id) ==
    IF id \in DOMAIN sessions
    THEN {sessions[id].server.tool_router[k] :
            k \in 1..Len(sessions[id].server.tool_router)}
    ELSE {}

\* tools/call on a session: the session's handler runs the tool.
ToolCall ==
    /\ Accepting
    /\ inflight = NoRequest
    /\ \E id \in DOMAIN sessions :
         \E name \in ToolsListed(id) :
           \E arguments \in ArgumentsOf(name) :
             inflight' = [kind |-> "tool", tool |-> name, arguments |-> arguments,
                          at |-> now,
                          result |-> CallTool(sessions[id].server, name, arguments, now)]
    /\ UNCHANGED <<entry, args, pc, server, adapter, sessions, signalled, now,
                   fault, shutdown_complete, exit_code>>

\* initialize on a session: the client's handshake, answered by the
\* session's handler.
Initialize ==
    /\ Accepting
    /\ inflight = NoRequest
    /\ \E id \in DOMAIN sessions :
         inflight' = [kind |-> "initialize", tool |-> "initialize",
                      arguments |-> EmptyObject, at |-> now,
                      result |-> initialize(sessions[id].server)]
    /\ UNCHANGED <<entry, args, pc, server, adapter, sessions, signalled, now,
                   fault, shutdown_complete, exit_code>>

\* router.route("/health", get(..)): the handler of the running transport.
HealthRoute(utc_now) ==
    IF pc = "http_serving" THEN health_check_handler(utc_now)
    ELSE sse_health_check(utc_now)

\* GET /health
HealthCheck ==
    /\ pc \in {"http_serving", "sse_serving"}
    /\ ~signalled
    /\ inflight = NoRequest
    /\ inflight' = [kind |-> "health", tool |-> "/health", arguments |-> EmptyObject, at |-> now,
                result |-> HealthRoute(now)]
    /\ UNCHANGED <<entry, args, pc, server, adapter, sessions, signalled, now,
                   fault, shutdown_complete, exit_code>>

\* The transport writes the response to the client: the request is done.
Respond ==
    /\ Serving
    /\ inflight # NoRequest
    /\ inflight' = NoRequest
    /\ UNCHANGED <<entry, args, pc, server, adapter, sessions, signalled, now,
                   fault, shutdown_complete, exit_code>>

\* Time passes.
Tick ==
    /\ Serving
    /\ now < MaxClock
    /\ now' = now + 1
    /\ UNCHANGED <<entry, args, pc, server, adapter, sessions, signalled, inflight,
                   fault, shutdown_complete, exit_code>>

\* Ctrl+C reaches the handler the transport installed: the graceful-shutdown
\* future of main.rs resolves; in sse_server.rs the spawned task cancels ct.
CtrlC ==
    /\ pc \in {"http_serving", "sse_serving"}
    /\ ~signalled
    /\ signalled' = TRUE
    /\ UNCHANGED <<entry, args, pc, server, adapter, sessions, now, inflight,
                   fault, shutdown_complete, exit_code>>

\* SSE: ct is the token of SseServerConfig too; cancelled, rmcp ends every
\* session's service and with it the session's event stream.
SseCancelSessions ==
    /\ pc = "sse_serving"
    /\ signalled
    /\ sessions # NoSessions
    /\ sessions' = NoSessions
    /\ UNCHANGED <<entry, args, pc, server, adapter, signalled, now, inflight,
                   fault, shutdown_complete, exit_code>>

\* axum::serve(..).with_graceful_shutdown(..) resolves to Ok once the signal
\* was received and every connection has ended (no request is being
\* answered, no event stream is open); it waits for them without a time limit.
GracefulShutdownDone == signalled /\ OpenStreams = {} /\ inflight = NoRequest

\* main.rs: `let _ = axum::serve(..)...await;` then "shutdown complete", Ok(())
HttpServeOk ==
    /\ pc = "http_serving"
    /\ GracefulShutdownDone
    /\ Exit(ExitOk, TRUE, "none")
    /\ UNCHANGED <<entry, args, server, adapter, signalled, now>>

\* main.rs: the serve future resolves to Err(io error); `let _ =` drops it
\* and main goes on to "shutdown complete", Ok(())
HttpServeErr ==
    /\ pc = "http_serving"
    /\ Exit(ExitOk, TRUE, "serve")
    /\ UNCHANGED <<entry, args, server, adapter, signalled, now>>

\* sse_server.rs: server_future.await is Ok: "has been shut down", Ok(())
SseServeOk ==
    /\ pc = "sse_serving"
    /\ GracefulShutdownDone
    /\ Exit(ExitOk, TRUE, "none")
    /\ UNCHANGED <<entry, args, server, adapter, signalled, now>>

\* sse_server.rs: `if let Err(e) = server_future.await` returns Err
SseServeErr ==
    /\ pc = "sse_serving"
    /\ Exit(ExitErr, FALSE, "serve")
    /\ UNCHANGED <<entry, args, server, adapter, signalled, now>>

\* What the program does on its own, given the chance: every step but the
\* clients', the clock's, the signal and the faults.
ProgramStep ==
    \/ ParseArgs
    \/ NewServer
    \/ StdioServe
    \/ StdioWaitingOk
    \/ HttpParseAddr
    \/ HttpBind
    \/ SseBind
    \/ Respond
    \/ SseCancelSessions
    \/ HttpServeOk
    \/ SseServeOk

Next ==
    \/ ParseArgs
    \/ NewServer
    \/ StdioServe
    \/ StdioClosed
    \/ StdioWaitingOk
    \/ StdioWaitingErr
    \/ HttpParseAddr
    \/ HttpBind
    \/ SseBind
    \/ \E id \in SessionIds : OpenSession(id)
    \/ \E id \in SessionIds : OpenStream(id)
    \/ \E id \in SessionIds : CloseStream(id)
    \/ \E id \in SessionIds : CloseSession(id)
    \/ Initialize
    \/ ToolCall
    \/ HealthCheck
    \/ Respond
    \/ Tick
    \/ CtrlC
    \/ SseCancelSessions
    \/ HttpServeOk
    \/ HttpServeErr
    \/ SseServeOk
    \/ SseServeErr

Spec == Init /\ [][Next]_vars

\* The runtime schedules the program's own steps: none stays enabled
\* forever without being taken.
FairSpec == Spec /\ WF_vars(ProgramStep)

(***************************************************************************)
(* Properties.                                                             *)
(***************************************************************************)
\* A step that takes a request of the given kind and computes its response.
Answers(kind) == inflight = NoRequest /\ inflight'.kind = kind

\* Everything but the response being written.
ServerState == <<entry, args, pc, server, adapter, sessions, signalled, now,
                 fault, shutdown_complete, exit_code>>

\* C1: while an HTTP-mode or SSE-mode server runs, GET /health is answered
\* with status 200 and a body whose "status" is "healthy", whatever sessions,
\* requests and tool calls came before; answering it changes nothing of the
\* server and has no other outcome.
C1_HealthAlwaysHealthy ==
    /\ [](/\ pc \in {"http_serving", "sse_serving"} =>
               /\ HealthRoute(now).status_code = 200
               /\ HealthRoute(now).body.status = "healthy"
          /\ inflight.kind = "health" =>
               /\ inflight.result.status_code = 200
               /\ inflight.result.body.status = "healthy")
    /\ [][Answers("health") => UNCHANGED ServerState]_vars

C1_Witness ==
    /\ inflight.kind = "health"
    /\ inflight.result.status_code = 200
    /\ Cardinality(DOMAIN sessions) = MaxSessions
    /\ now > 0

\* C2: each of --transport stdio, http and sse is accepted by the command
\* line, and main starts the transport adapter of that name and no other.
C2_ThreeTransports ==
    (entry = "main" /\ args.transport \in {"stdio", "http", "sse"}) =>
        /\ fault # "usage"
        /\ adapter # "none" => adapter = args.transport

\* C3: the process ends with exit code 0 exactly when it shut down without
\* an error; a failed start-up (address, bind, stdio start) or a failed
\* serve ends it with a non-zero code and never reaches "shutdown complete".
C3_ExitCodes ==
    pc = "exited" =>
        /\ exit_code = 0 <=> fault = "none"
        /\ shutdown_complete => fault = "none"

\* C4: once the shutdown signal was received by a serving HTTP or SSE
\* server the process eventually exits, even if a client keeps its event
\* stream open for ever ("shutdown complete" is logged only on the way out,
\* so a run that never exits never reaches it).
C4_ShutdownCompletes == signalled ~> (pc = "exited")

\* The run is main with --transport stdio.
StdioMode == entry = "main" /\ args.transport = "stdio"

\* C5: in stdio mode the one session is opened by the start-up step and no
\* other step ever opens a session; while it is open the process ends only
\* by a failure of the serving task; once it has ended the process reaches
\* "shutdown complete".
C5_StdioSingleSession ==
    /\ [](StdioMode => DOMAIN sessions \subseteq {StdioSessionId})
    /\ [][(StdioMode /\ ~(DOMAIN sessions' \subseteq DOMAIN sessions)) =>
             (pc = "match" /\ sessions = NoSessions)]_vars
    /\ [][(StdioMode /\ sessions # NoSessions /\ pc' = "exited") =>
             fault' = "serve"]_vars
    /\ (StdioMode /\ pc = "stdio_waiting" /\ sessions = NoSessions)
           ~> (pc = "exited" /\ shutdown_complete /\ exit_code = 0)

C5_Witness ==
    /\ StdioMode
    /\ adapter = "stdio"
    /\ pc = "exited"
    /\ shutdown_complete

\* C6 as stated: every tool call returns what the same call returns on a
\* freshly built server at the first instant, whatever came before it.
C6_ToolsPure ==
    inflight.kind = "tool" =>
        inflight.result = CallTool(AuroraServer_new, inflight.tool, inflight.arguments, 0)

\* C6 amended: every tool call but health_check returns what the same call
\* returns on a freshly built server at the first instant; health_check
\* returns what it returns on a freshly built server at the instant of the
\* call (its "timestamp" is that instant); and no tool call changes anything
\* of the server.
C6_ToolsPureButClock ==
    /\ [](inflight.kind = "tool" =>
            inflight.result =
                CallTool(AuroraServer_new, inflight.tool, inflight.arguments,
                         IF inflight.tool = "health_check" THEN inflight.at ELSE 0))
    /\ [][Answers("tool") => UNCHANGED ServerState]_vars

C6_Witness ==
    /\ inflight.kind = "tool"
    /\ inflight.tool = "health_check"
    /\ inflight.at > 0
    /\ inflight.result # CallTool(AuroraServer_new, "health_check", EmptyObject, 0)

\* C7: every tool call yields an Ok value; batch_greeting with an empty names
\* list yields Ok of the tool-error result whose only content is "Error: At
\* least one name must be provided"; and the step that answers a tool call
\* leaves the server serving, with its sessions, not signalled, not exited.
C7_ToolErrorsKeepServing ==
    /\ [](inflight.kind = "tool" =>
            /\ inflight.result.ok
            /\ (inflight.tool = "batch_greeting" /\ inflight.arguments.names = <<>>) =>
                 inflight.result =
                    [ok |-> TRUE,
                     value |-> [is_error |-> TRUE,
                                content |-> <<"Error: At least one name must be provided">>]])
    /\ [][Answers("tool") =>
            /\ Serving /\ pc' = pc
            /\ sessions' = sessions
            /\ signalled' = signalled
            /\ exit_code' = Running]_vars

C7_Witness ==
    /\ inflight.kind = "tool"
    /\ inflight.tool = "batch_greeting"
    /\ inflight.arguments.names = <<>>
    /\ inflight.result.value.is_error
    /\ Serving

\* The set of names a router holds.
RegisteredNames(router) == {router[i] : i \in 1..Len(router)}

\* C8: the server is built before a transport is started and never changes
\* afterwards; its router holds the five tool names once each; every session
\* is served by a server with that same router.
C8_RegistryReadOnly ==
    /\ [](/\ adapter # "none" => server # NoServer
          /\ server # NoServer =>
               /\ Len(server.tool_router) = 5
               /\ RegisteredNames(server.tool_router) =
                    {"hello_world", "get_usa_president", "get_server_info",
                     "health_check", "batch_greeting"}
          /\ \A id \in DOMAIN sessions :
               sessions[id].server.tool_router = server.tool_router)
    /\ [][server # NoServer => server' = server]_vars

C8_Witness ==
    /\ Cardinality(DOMAIN sessions) = 2
    /\ inflight.kind = "tool"
    /\ signalled = FALSE
    /\ pc = "http_serving"

\* The greetings the arguments a ask for, and strings set between quotes
\* and separators.
C9_Expected(a) ==
    [i \in 1..Len(a.names) |->
        (IF "include_numbers" \in DOMAIN a /\ a.include_numbers
         THEN ToString(i) \o ". " ELSE "")
        \o (IF "prefix" \in DOMAIN a THEN a.prefix ELSE "Hello")
        \o ", " \o a.names[i] \o "!"]

RECURSIVE C9_Separated(_, _, _, _)
C9_Separated(strs, k, sep, quote) ==
    IF k = 1 THEN quote \o strs[1] \o quote
    ELSE C9_Separated(strs, k - 1, sep, quote) \o sep \o quote \o strs[k] \o quote

\* C9: for a non-empty names list of length n batch_greeting returns n
\* greetings in the order of the names, the i-th being "<prefix>, <name>!",
\* preceded by "<i>. " when include_numbers is true (i from 1); as text they
\* are joined by newlines, as JSON they are the "greetings" array and
\* "count" is n.
C9_BatchGreetingFormat ==
    (inflight.kind = "tool" /\ inflight.tool = "batch_greeting"
        /\ inflight.arguments.names # <<>>) =>
      LET a == inflight.arguments
          n == Len(a.names)
          text == inflight.result.value.content[1]
      IN  /\ inflight.result.ok
          /\ ~inflight.result.value.is_error
          /\ Len(inflight.result.value.content) = 1
          /\ IF "as_json" \in DOMAIN a /\ a.as_json
             THEN text = "{\"count\":" \o ToString(n)
                         \o ",\"greetings\":[" \o C9_Separated(C9_Expected(a), n, ",", "\"")
                         \o "],\"include_numbers\":"
                         \o (IF "include_numbers" \in DOMAIN a /\ a.include_numbers
                             THEN "true" ELSE "false")
                         \o ",\"prefix\":\""
                         \o (IF "prefix" \in DOMAIN a THEN a.prefix ELSE "Hello")
                         \o "\"}"
             ELSE text = C9_Separated(C9_Expected(a), n, "\n", "")

C9_Witness ==
    /\ inflight.kind = "tool"
    /\ inflight.tool = "batch_greeting"
    /\ inflight.arguments = [names |-> <<"Ann", "Bob">>, prefix |-> "Hi",
                             include_numbers |-> TRUE]
    /\ inflight.result.value.content = <<"1. Hi, Ann!\n2. Hi, Bob!">>

\* The arguments a with the defaults written out for the absent fields.
C10_WithDefaults(a) ==
    a @@ [prefix |-> "Hello", include_numbers |-> FALSE, as_json |-> FALSE]

\* C10: a batch_greeting call with a non-empty names list returns what the
\* call returns with prefix "Hello", include_numbers false and as_json false
\* filled in for the fields it leaves out.
C10_OmittedEqualsDefault ==
    (inflight.kind = "tool" /\ inflight.tool = "batch_greeting"
        /\ inflight.arguments.names # <<>>) =>
      inflight.result =
          CallTool(AuroraServer_new, "batch_greeting",
                   C10_WithDefaults(inflight.arguments), inflight.at)

C10_Witness ==
    /\ inflight.kind = "tool"
    /\ inflight.tool = "batch_greeting"
    /\ DOMAIN inflight.arguments = {"names"}
    /\ Len(inflight.arguments.names) = 2
    /\ inflight.result.value.content = <<"Hello, Ann!\nHello, Bob!">>

\* The text health_check returns at instant t when it reports n tools.
C11_HealthText(t, n) ==
    "{\"server\":\"Aurora OS MCP Demo Server\",\"status\":\"healthy\",\"timestamp\":\""
    \o to_rfc3339(t) \o "\",\"tools_available\":" \o ToString(n)
    \o ",\"transport_mode\":\"multi-mode (stdio/http/sse)\",\"uptime_seconds\":0"
    \o ",\"version\":\"0.1.0\"}"

\* C11: what the server says of itself agrees with its router: the
\* "tools_available" of a health_check answer is the number of tools the
\* router holds, and the tool names get_server_info lists and the ones the
\* instructions of get_info / initialize list are exactly the router's names.
C11_SelfDescriptionsAgree ==
    /\ (inflight.kind = "tool" /\ inflight.tool = "health_check") =>
          inflight.result.value.content =
              <<C11_HealthText(inflight.at, Len(server.tool_router))>>
    /\ (inflight.kind = "tool" /\ inflight.tool = "get_server_info") =>
          RegisteredNames(ServerInfoToolNames) = RegisteredNames(server.tool_router)
    /\ inflight.kind = "initialize" =>
          /\ inflight.result.value.instructions = get_info(server).instructions
          /\ RegisteredNames(InstructionsToolNames) = RegisteredNames(server.tool_router)

====
